---- MODULE Spec2Model ----
(***************************************************************************)
(* Model of gen_data.py: a batch script that builds four tables (wells     *)
(* completion, production curve, production summary, geographic sites) and *)
(* writes each to a CSV file under a data directory created at import.     *)
(*                                                                         *)
(* Real numbers are carried as integers in thousandths (0.807 is 807).     *)
(* 32-bit words of the Mersenne Twister behind np.random are carried as    *)
(* pairs <<high 16 bits, low 16 bits>>.                                    *)
(***************************************************************************)
EXTENDS Integers, Sequences, FiniteSets, TLC

\* ------------------------------------------------------------------------
\* Bit operations on naturals below 2^n
\* ------------------------------------------------------------------------
RECURSIVE XorN(_, _, _)
XorN(a, b, n) ==
    IF n = 0 THEN 0
    ELSE ((a + b) % 2) + 2 * XorN(a \div 2, b \div 2, n - 1)

RECURSIVE AndN(_, _, _)
AndN(a, b, n) ==
    IF n = 0 THEN 0
    ELSE ((a % 2) * (b % 2)) + 2 * AndN(a \div 2, b \div 2, n - 1)

RECURSIVE OrN(_, _, _)
OrN(a, b, n) ==
    IF n = 0 THEN 0
    ELSE (IF a % 2 = 1 \/ b % 2 = 1 THEN 1 ELSE 0)
         + 2 * OrN(a \div 2, b \div 2, n - 1)

Half == 65536

WXor(x, y) == <<XorN(x[1], y[1], 16), XorN(x[2], y[2], 16)>>
WAnd(x, y) == <<AndN(x[1], y[1], 16), AndN(x[2], y[2], 16)>>

\* x >> n for 0 < n < 16, and x << n for 0 < n < 16, on a 32-bit word
Pow2(n) == 2 ^ n
WShr(x, n) ==
    IF n >= 16 THEN <<0, x[1] \div Pow2(n - 16)>>
    ELSE <<x[1] \div Pow2(n),
           ((x[1] % Pow2(n)) * Pow2(16 - n)) + (x[2] \div Pow2(n))>>
WShl(x, n) ==
    <<((x[1] % Pow2(16 - n)) * Pow2(n)) + (x[2] \div Pow2(16 - n)),
      (x[2] % Pow2(16 - n)) * Pow2(n)>>

\* low 16 bits, and the full 32 bits, of the product of two 16-bit numbers
MulLo16(a, b) ==
    (((a % 256) * b) + ((((a \div 256) * b) % 256) * 256)) % Half
Mul16Sum(s, p1) == <<((s \div Half) + (p1 \div 256)) % Half, s % Half>>
Mul16(a, b) ==
    Mul16Sum(((a % 256) * b) + ((((a \div 256) * b) % 256) * 256),
             (a \div 256) * b)

\* (x * c) mod 2^32 and (x + k) mod 2^32 for a small k
WMulSum(ll, x, c) ==
    <<(ll[1] + MulLo16(x[1], c[2]) + MulLo16(x[2], c[1])) % Half, ll[2]>>
WMul(x, c) == WMulSum(Mul16(x[2], c[2]), x, c)
WAddSmall(x, k) ==
    <<(x[1] + ((x[2] + k) \div Half)) % Half, (x[2] + k) % Half>>

\* ------------------------------------------------------------------------
\* numpy's legacy generator: MT19937 as np.random.seed / np.random.randint
\* drive it
\* ------------------------------------------------------------------------
RK_STATE_LEN == 624
MT_M == 397
INIT_MULT == <<27655, 35173>>     \* 1812433253
MATRIX_A == <<39176, 45279>>      \* 0x9908b0df
TEMPER_B == <<40236, 22144>>      \* 0x9d2c5680
TEMPER_C == <<61382, 0>>          \* 0xefc60000

\* A for-loop over lo <= i < hi is evaluated as its two half-ranges one
\* after the other: the bodies still run in index order, the nesting of the
\* evaluation is logarithmic instead of linear.  The test on the first
\* half's result is always true; it makes the first half be computed
\* before the second is entered.

\* mt19937_seed: for pos in 0..623: key[pos] = seed;
\*               seed = (1812433253 * (seed ^ (seed >> 30)) + pos + 1) mod 2^32
\* st = <<key so far, seed>>
SeedStep(st, pos) ==
    <<Append(st[1], st[2]),
      WAddSmall(WMul(WXor(st[2], WShr(st[2], 30)), INIT_MULT), pos + 1)>>

RECURSIVE SeedLoop(_, _, _)
SeedLoop(st, lo, hi) ==
    IF hi <= lo THEN st
    ELSE IF hi = lo + 1 THEN SeedStep(st, lo)
    ELSE LET mid == (lo + hi) \div 2
             first == SeedLoop(st, lo, mid)
         IN  IF Len(first[1]) = mid THEN SeedLoop(first, mid, hi) ELSE first

mt19937_seed(seed) ==
    SeedLoop(<<(<<>>), <<seed \div Half, seed % Half>>>>, 0, RK_STATE_LEN)[1]

\* mt19937_gen, one index: y = (key[i] & UPPER) | (key[i+1] & LOWER);
\* key[i] = key[i+M] ^ (y >> 1) ^ (y odd ? MATRIX_A : 0), indices wrapping
\* at 624 (the three loops of the C code); the key is updated in place.
\* Sequences are 1-based: C index i is key[i + 1].
Mixed(hi, lo) == <<((hi[1] \div 32768) * 32768) + (lo[1] % 32768), lo[2]>>
Mag(y) == IF y[2] % 2 = 1 THEN MATRIX_A ELSE <<0, 0>>
Twisted(far, y) == WXor(WXor(far, WShr(y, 1)), Mag(y))
GenStep(key, i) ==
    [key EXCEPT ![i + 1] =
        Twisted(key[((i + MT_M) % RK_STATE_LEN) + 1],
                Mixed(key[i + 1], key[((i + 1) % RK_STATE_LEN) + 1]))]

RECURSIVE GenLoop(_, _, _)
GenLoop(key, lo, hi) ==
    IF hi <= lo THEN key
    ELSE IF hi = lo + 1 THEN GenStep(key, lo)
    ELSE LET mid == (lo + hi) \div 2
             first == GenLoop(key, lo, mid)
         IN  IF Len(first) = RK_STATE_LEN THEN GenLoop(first, mid, hi) ELSE first

mt19937_gen(key) == GenLoop(key, 0, RK_STATE_LEN)

\* the tempering of one output word (mt19937_next)
\* y ^= y >> 11; y ^= (y << 7) & B; y ^= (y << 15) & C; y ^= y >> 18
Temper1(y) == WXor(y, WShr(y, 11))
Temper2(y) == WXor(y, WAnd(WShl(y, 7), TEMPER_B))
Temper3(y) == WXor(y, WAnd(WShl(y, 15), TEMPER_C))
Temper4(y) == WXor(y, WShr(y, 18))
Temper(y) == Temper4(Temper3(Temper2(Temper1(y))))

\* ------------------------------------------------------------------------
\* State of np.random's global generator.  After np.random.seed(s) the key
\* is mt19937_seed(s) and pos = 624, so the first draw regenerates the key;
\* the state is then fully determined by s and by the number of 32-bit words
\* taken since (used): key = the seeded key regenerated (used \div 624) + 1
\* times, pos = used % 624.  [seed, used] stands for that state.
\* ------------------------------------------------------------------------
SEED == 42            \* np.random.seed(42)
EntropySeed == 7      \* stands for the OS entropy numpy starts a process with
MaxTwists == 1        \* key regenerations tabulated per seed

KnownSeeds == {SEED, EntropySeed}

RECURSIVE Regenerated(_, _)
Regenerated(key, n) ==
    IF n = 0 THEN <<>>
    ELSE LET k == mt19937_gen(key)
         IN  <<k>> \o Regenerated(k, n - 1)

\* Keys[s][g]: the key of a generator seeded with s after g regenerations
Keys == [s \in KnownSeeds |-> Regenerated(mt19937_seed(s), MaxTwists)]

RngState(seed, used) == [seed |-> seed, used |-> used]

\* np.random.seed(s): legacy seeding, whatever the state was before
\* (variant without the reseeding: the state is left as it was)
np_random_seed_keep(st, s) == st
np_random_seed(st, s) == RngState(s, 0)

WordsLeft(st) ==
    st.seed \in KnownSeeds /\ st.used < RK_STATE_LEN * MaxTwists

\* Words[s][g][i]: the tempered output for key word i of Keys[s][g]
Words ==
    [s \in KnownSeeds |->
        [g \in 1..MaxTwists |->
            [i \in 1..RK_STATE_LEN |-> Temper(Keys[s][g][i])]]]

\* mt19937_next: the next tempered 32-bit word
mt19937_next(st) ==
    Words[st.seed][(st.used \div RK_STATE_LEN) + 1]
                   [(st.used % RK_STATE_LEN) + 1]

\* ------------------------------------------------------------------------
\* The source of raw 32-bit words.  The program always runs on MT19937; the
\* other sources are fixed cyclic word streams, used to let the draws take
\* values the seeded twister does not produce in 61 draws (band edges,
\* rejected words).
\* ------------------------------------------------------------------------
MT19937 == <<>>
CyclicStreams ==
    { <<0>>, <<549, 1023>>,
      <<63, 50, 49, 1023, 550, 549, 255, 180, 179, 0>> }
BitGenerators == {MT19937} \cup CyclicStreams

HasWord(gen, st) == gen # MT19937 \/ WordsLeft(st)

next_uint32(gen, st) ==
    IF gen = MT19937 THEN mt19937_next(st)
    ELSE <<0, gen[(st.used % Len(gen)) + 1]>>

\* _gen_mask: the smallest 2^k - 1 >= r (r below 2^16 here)
OrShr(m, d) == OrN(m, m \div d, 16)          \* m | (m >> log2 d)
gen_mask(r) == OrShr(OrShr(OrShr(OrShr(r, 2), 4), 16), 256)

\* np.random.randint(low, high): low + a value in 0..high-1-low, by masked
\* rejection: take a word, mask it, retry while the result exceeds the range.
\* Returns the value and the generator state after the words it consumed
\* (ok = FALSE when the tabulated words run out first).
RECURSIVE bounded_masked(_, _, _, _)
\* v: the masked word just taken; after: the state once it is taken
MaskedTry(gen, v, after, r, mask) ==
    IF v <= r THEN [ok |-> TRUE, value |-> v, rng |-> after]
    ELSE bounded_masked(gen, after, r, mask)

bounded_masked(gen, st, r, mask) ==
    IF ~HasWord(gen, st) THEN [ok |-> FALSE, value |-> 0, rng |-> st]
    ELSE MaskedTry(gen, WAnd(next_uint32(gen, st), <<0, mask>>)[2],
                   RngState(st.seed, st.used + 1), r, mask)

Offset(d, low) == [ok |-> d.ok, value |-> low + d.value, rng |-> d.rng]

randint(gen, st, low, high) ==
    IF high - 1 - low = 0 THEN [ok |-> TRUE, value |-> low, rng |-> st]
    ELSE Offset(bounded_masked(gen, st, high - 1 - low,
                               gen_mask(high - 1 - low)), low)


\* ------------------------------------------------------------------------
\* Tables (pandas DataFrame) and CSV text
\* ------------------------------------------------------------------------
Range(a, b) == [i \in 1..(b - a) |-> a + i - 1]        \* list(range(a, b))

\* Python values in a list literal, each with its type: an int, a float (in
\* thousandths) or a str
PyInt(n) == [t |-> "int", v |-> n]
F(n) == [t |-> "float", v |-> n]
PyStr(s) == [t |-> "str", v |-> s]
Ints(seq) == [i \in 1..Len(seq) |-> PyInt(seq[i])]
Strs(seq) == [i \in 1..Len(seq) |-> PyStr(seq[i])]
IsFloat(v) == v.t = "float"

\* a column built from a Python list: a list of numbers holding a float
\* becomes a float64 column (its ints are converted), other lists are kept
Column(vals) ==
    IF \E i \in 1..Len(vals) : IsFloat(vals[i])
    THEN [i \in 1..Len(vals) |-> IF IsFloat(vals[i]) THEN vals[i]
                                  ELSE F(1000 * vals[i].v)]
    ELSE vals

\* pd.DataFrame(dict): columns in insertion order
\* names: the keys in order; lists: the value of each key
DataFrame(names, lists) ==
    [columns |-> names, cols |-> [c \in 1..Len(names) |-> Column(lists[c])]]

NoFrame == [columns |-> <<>>, cols |-> <<>>]
NRows(frame) == IF Len(frame.cols) = 0 THEN 0 ELSE Len(frame.cols[1])
ColumnOf(frame, name) ==
    frame.cols[CHOOSE c \in 1..Len(frame.columns) : frame.columns[c] = name]

\* df.to_csv(path, index=False): a header line of the column names, then one
\* line per row with the cells in column order; no index column
to_csv(frame) ==
    <<Strs(frame.columns)>> \o
    [r \in 1..NRows(frame) |-> [c \in 1..Len(frame.columns) |-> frame.cols[c][r]]]

\* df.describe(), reduced to its count row: rows counted per numeric column
IsNumeric(col) == Len(col) > 0 /\ col[1].t \in {"int", "float"}
describe(frame) ==
    [c \in 1..Len(frame.columns) |->
        IF IsNumeric(frame.cols[c]) THEN Len(frame.cols[c]) ELSE -1]

\* ------------------------------------------------------------------------
\* The four generators: what each builds and where it writes
\* ------------------------------------------------------------------------
Generators == {"wells", "production", "summary", "geographic"}

YearFirst == 1960
YearStop == 2021
EarlyEnd == 1970
PeakEnd == 1990
EarlyLow == 0
EarlyHigh == 50
PeakLow == 50
PeakHigh == 600
RecentLow == 20
RecentHigh == 200

\* years = list(range(1960, 2021))
\* (variant stopping one year early)
WellsYears_short == Range(YearFirst, YearStop - 1)
WellsYears == Range(YearFirst, YearStop)

\* the if / elif / else of the loop body: the randint arguments for a year
\* (variant with the first test year <= 1970)
Band_shifted(year) ==
    IF year <= EarlyEnd THEN <<EarlyLow, EarlyHigh>>
    ELSE IF EarlyEnd <= year /\ year < PeakEnd THEN <<PeakLow, PeakHigh>>
    ELSE <<RecentLow, RecentHigh>>
Band(year) ==
    IF year < EarlyEnd THEN <<EarlyLow, EarlyHigh>>
    ELSE IF EarlyEnd <= year /\ year < PeakEnd THEN <<PeakLow, PeakHigh>>
    ELSE <<RecentLow, RecentHigh>>

ProdFirst == 2008
ProdStop == 2016
gas_production ==
    <<PyInt(0), F(200), F(800), F(2000), F(1800), F(1200), F(500), PyInt(0)>>
oil_production ==
    <<PyInt(0), F(100), F(100), F(100), F(100), F(100), F(100), PyInt(0)>>
water_production == Ints(<<0, 0, 0, 0, 0, 0, 0, 0>>)

categories ==
    <<"Gas", "Water", "Oil", "Gas Development", "Oil Development",
      "Gas Extension", "Gas Wildcat", "Oil Injection", "Oil Wildcat">>
percentages ==
    <<F(96700), F(807), F(2300), F(54100), F(39100),
      F(3080), F(2960), F(410), F(685)>>

WellsFrame(ys, counts) ==
    DataFrame(<<"Year", "Completed_Wells">>, <<Ints(ys), Ints(counts)>>)

ProductionFrame ==
    DataFrame(<<"Year", "Gas_Produced", "Oil_Produced", "Water_Produced">>,
              <<Ints(Range(ProdFirst, ProdStop)), gas_production, oil_production,
                water_production>>)

SummaryFrame ==
    DataFrame(<<"Category", "Percentage">>, <<Strs(categories), percentages>>)

GeographicFrame ==
    DataFrame(<<"Site_Name", "Latitude", "Longitude", "Status", "Type">>,
              << Strs(<<"Well Site A", "Well Site B", "Well Site C",
                        "Well Site D">>),
                 <<F(42500), F(42800), F(42300), F(42600)>>,
                 <<F(-76500), F(-76200), F(-76800), F(-76400)>>,
                 Strs(<<"Active", "Active", "Active", "Active">>),
                 Strs(<<"Gas Production", "Oil Production", "Gas Wildcat",
                        "Water Injection">>) >>)

\* the table a generator other than wells builds
LiteralFrame(g) ==
    CASE g = "production" -> ProductionFrame
      [] g = "summary"    -> SummaryFrame
      [] g = "geographic" -> GeographicFrame

\* the file each generator writes under data_dir
\* (variant in which production writes the wells file)
FileOf_shared(g) ==
    CASE g = "wells"      -> "wells_completion.csv"
      [] g = "production" -> "wells_completion.csv"
      [] g = "summary"    -> "production_summary.csv"
      [] g = "geographic" -> "geographic_data.csv"
FileOf(g) ==
    CASE g = "wells"      -> "wells_completion.csv"
      [] g = "production" -> "production_data.csv"
      [] g = "summary"    -> "production_summary.csv"
      [] g = "geographic" -> "geographic_data.csv"

\* the line each generator prints after saving
Printed(g) ==
    CASE g = "wells"      -> "Generated wells completion data"
      [] g = "production" -> "Generated production data"
      [] g = "summary"    -> "Generated production summary data"
      [] g = "geographic" -> "Generated geographic data"

\* print(a, b): the arguments joined by one space, then a newline; a leading
\* "\n" in the text puts an empty line before it.  The output is kept as
\* the sequence of its lines.
print_line(text) == <<text>>
print_nl(text) == <<"", text>>
Joined(text, arg) == text \o " " \o arg

\* pathlib paths: whether the path is absolute, and its components.  The
\* operations are lexical, as in pathlib: nothing is resolved or normalised.
Path(abs, parts) == [abs |-> abs, parts |-> parts]

\* Path.parent: the path without its last component; "/" and "." are their
\* own parents, and the parent of ".." is "."
PathParent(p) ==
    IF Len(p.parts) = 0 THEN p
    ELSE Path(p.abs, SubSeq(p.parts, 1, Len(p.parts) - 1))

\* p / name
PathJoin(p, name) == Path(p.abs, Append(p.parts, name))

\* Path.absolute(): a relative path is put behind the working directory,
\* its ".." components kept
PathAbsolute(p, wd) == IF p.abs THEN p ELSE Path(TRUE, wd.parts \o p.parts)

\* str(path)
RECURSIVE Slashed(_)
Slashed(parts) ==
    IF Len(parts) = 0 THEN ""
    ELSE IF Len(parts) = 1 THEN parts[1]
    ELSE parts[1] \o "/" \o Slashed(Tail(parts))
PathStr(p) ==
    IF p.abs THEN "/" \o Slashed(p.parts)
    ELSE IF Len(p.parts) = 0 THEN "."
    ELSE Slashed(p.parts)

\* data_dir = Path(__file__).parent.parent / "data": the directory named
\* data in the parent of the directory that holds the script
data_dir_of(file) == PathJoin(PathParent(PathParent(file)), "data")

\* data_dir.absolute(), as print shows it
data_dir_absolute(file, wd) == PathStr(PathAbsolute(data_dir_of(file), wd))

\* how the script can have been started: __file__ as the interpreter sets
\* it (absolute, or relative as typed on the command line with older
\* interpreters) and the working directory
Invocations ==
    { [file |-> Path(TRUE, <<"root", "project", "gen_data.py">>),
       cwd  |-> Path(TRUE, <<"root", "project">>)],
      [file |-> Path(TRUE, <<"root", "project", "src", "gen_data.py">>),
       cwd  |-> Path(TRUE, <<"root", "project">>)],
      [file |-> Path(FALSE, <<"..", "gen_data.py">>),
       cwd  |-> Path(TRUE, <<"root", "project", "sub">>)] }

\* the heading main() prints above each table's describe()
Heading(g) ==
    CASE g = "wells"      -> "Wells Completion Data:"
      [] g = "production" -> "Production Data:"
      [] g = "summary"    -> "Production Summary:"
      [] g = "geographic" -> "Geographic Data:"

\* the order in which main() prints the summaries
ReportOrder == <<"wells", "production", "summary", "geographic">>

\* print("\n<heading>") then print(frame.describe()), for each table
SummaryLines(frames) ==
    [i \in 1..(3 * Len(ReportOrder)) |->
        CASE i % 3 = 1 -> ""
          [] i % 3 = 2 -> Heading(ReportOrder[(i + 2) \div 3])
          [] OTHER     -> describe(frames[ReportOrder[(i + 2) \div 3]])]

\* everything main() prints after the four generators have returned
ReportLines(frames, file, wd) ==
    print_nl(Joined("Data generation complete. Files saved in:",
                    data_dir_absolute(file, wd)))
    \o print_nl("Dataset summaries:")
    \o SummaryLines(frames)

\* what building a literal table does to np.random's state: nothing (the
\* three literal generators make no np.random call)
\* (variant in which building takes one word from the generator)
RngAfterBuild_draws(g, gen, st) ==
    IF HasWord(gen, st) THEN RngState(st.seed, st.used + 1) ELSE st
RngAfterBuild(g, gen, st) == st

\* the calls of main(), in order
\* (variant with production and summary exchanged)
MainOrder_swapped == <<"wells", "summary", "production", "geographic">>
MainOrder == <<"wells", "production", "summary", "geographic">>

\* ------------------------------------------------------------------------
\* The filesystem: data_dir and the files under it
\* ------------------------------------------------------------------------
\* Path.mkdir(parents, exist_ok) on a path that is absent, a directory or a
\* regular file, whose parent directory exists or not
PathMkdir(dir, parent, parents, exist_ok) ==
    IF dir = "absent" THEN
        IF parent THEN [dir |-> "dir", parent |-> TRUE, err |-> "none"]
        ELSE IF parents THEN [dir |-> "dir", parent |-> TRUE, err |-> "none"]
        ELSE [dir |-> dir, parent |-> parent, err |-> "FileNotFoundError"]
    ELSE IF exist_ok /\ dir = "dir"
        THEN [dir |-> dir, parent |-> parent, err |-> "none"]
        ELSE [dir |-> dir, parent |-> parent, err |-> "FileExistsError"]

\* data_dir.mkdir(exist_ok=True)
\* (variant without exist_ok)
data_dir_mkdir_strict(dir, parent) == PathMkdir(dir, parent, FALSE, FALSE)
data_dir_mkdir(dir, parent) == PathMkdir(dir, parent, FALSE, TRUE)

\* open(path, "w") then write: the file holds exactly the new text
\* (variant opening in append mode)
WriteFile_append(fs, name, text) ==
    [n \in DOMAIN fs \cup {name} |->
        IF n = name THEN (IF n \in DOMAIN fs THEN fs[n] \o text ELSE text)
        ELSE fs[n]]
WriteFile(fs, name, text) ==
    [n \in DOMAIN fs \cup {name} |-> IF n = name THEN text ELSE fs[n]]

\* a write that fails: the open failed and the path is as it was, or the
\* file was opened (created or truncated) and only part of the text arrived
FailedWrites(fs, name, text) ==
    {fs, WriteFile(fs, name, <<>>), WriteFile(fs, name, SubSeq(text, 1, 1))}

\* main() has no try / except: an exception raised by a generator ends it
\* (variant that swallows the exception and goes on to the next call)
OnWriteError_continue(next) == next
OnWriteError(next) == "aborted"

\* ------------------------------------------------------------------------
\* State
\* ------------------------------------------------------------------------
VARIABLES
    script,       \* how the process was started: __file__ and the working
                  \* directory
    pc,           \* where the process is: "import", "main", a generator of
                  \* main(), "report", "done", "aborted"; "parallel" when the
                  \* generators are scheduled freely
    gstep,        \* per generator: "idle", "loop" (wells only), "built",
                  \* "returned"
    dataDir,      \* data_dir on disk: "absent", "dir" or "file"
    parentDir,    \* whether data_dir's parent directory exists when
                  \* mkdir runs
    files,        \* the files under data_dir: name -> CSV text
    bitgen,       \* the source of raw words behind np.random
    rng,          \* np.random's global generator state
    years,        \* generate_wells_completion_data: local years
    wells_count,  \* generate_wells_completion_data: local wells_count
    df,           \* per generator: the DataFrame it built and returns
    stdout,       \* what was printed
    error,        \* the exception that ended the process, or "none"
    events,       \* history: the directory step, the writes and the report
                  \* of this run, in the order they happened
    start,        \* history: dataDir, parentDir, files and rng as the
                  \* process started
    prev,         \* history: the wells_count and the files the previous run
                  \* ended with
    run           \* history: number of the current run

vars == <<script, pc, gstep, dataDir, parentDir, files, bitgen, rng, years,
          wells_count, df, stdout, error, events, start, prev, run>>

MaxRuns == 2

FileNames == {FileOf(g) : g \in Generators}
Stale == << Strs(<<"stale">>) >>

\* the state np.random can be in when a process starts
EntropyStates == {RngState(EntropySeed, 0), RngState(EntropySeed, 3)}

Snapshot(dir, parent, fs, r) ==
    [dataDir |-> dir, parentDir |-> parent, files |-> fs, rng |-> r]

NoPrev == [ran |-> FALSE, wells |-> <<>>, hasWells |-> FALSE,
           done |-> FALSE, files |-> [n \in {} |-> <<>>]]

\* the disk before the first run: no data directory, a regular file in its
\* place, or the directory holding any subset of the four files.  The
\* parent of data_dir is the parent of the script's directory (the working
\* directory for a relative __file__); it is there when the interpreter
\* opens the script, and missing only if the tree was moved or removed
\* before line 8 runs.  The code never looks at it.
InitDisk ==
    \/ dataDir = "absent" /\ parentDir \in BOOLEAN
                          /\ files = [n \in {} |-> <<>>]
    \/ dataDir = "file" /\ parentDir = TRUE /\ files = [n \in {} |-> <<>>]
    \/ dataDir = "dir" /\ parentDir = TRUE
                       /\ \E present \in SUBSET FileNames :
                              files = [n \in present |-> Stale]

InitProcess ==
    /\ pc = "import"
    /\ gstep = [g \in Generators |-> "idle"]
    /\ years = <<>>
    /\ wells_count = <<>>
    /\ df = [g \in Generators |-> NoFrame]
    /\ stdout = <<>>
    /\ error = "none"
    /\ events = <<>>
    /\ prev = NoPrev
    /\ run = 1

Init ==
    /\ script \in Invocations
    /\ InitDisk
    /\ InitProcess
    /\ bitgen = MT19937
    /\ rng \in EntropyStates
    /\ start = Snapshot(dataDir, parentDir, files, rng)

\* the same program over any source of raw words, started on a disk with
\* the data directory absent or empty
InitAnyDraw ==
    /\ script \in Invocations
    /\ dataDir \in {"absent", "dir"}
    /\ parentDir = TRUE
    /\ files = [n \in {} |-> <<>>]
    /\ InitProcess
    /\ bitgen \in BitGenerators
    /\ rng \in EntropyStates
    /\ start = Snapshot(dataDir, parentDir, files, rng)

\* ------------------------------------------------------------------------
\* Import: data_dir.mkdir(exist_ok=True) at module level
\* ------------------------------------------------------------------------
ImportModule ==
    /\ pc = "import"
    /\ LET m == data_dir_mkdir(dataDir, parentDir)
       IN  /\ dataDir' = m.dir
           /\ parentDir' = m.parent
           /\ error' = m.err
           /\ pc' = IF m.err = "none" THEN "main" ELSE "aborted"
           /\ events' = IF m.err = "none" THEN Append(events, "mkdir")
                        ELSE events
    /\ UNCHANGED <<script, gstep, files, bitgen, rng, years, wells_count, df, stdout,
                   start, prev, run>>

\* ------------------------------------------------------------------------
\* main(): print the directory, then call the generators in order
\* ------------------------------------------------------------------------
MainEnter ==
    /\ pc = "main"
    /\ stdout' = stdout \o print_line(Joined("Generating data files in:",
                            data_dir_absolute(script.file, script.cwd)))
    /\ pc' = MainOrder[1]
    /\ UNCHANGED <<script, gstep, dataDir, parentDir, files, bitgen, rng, years,
                   wells_count, df, error, events, start, prev, run>>

\* the same, with the four generators left to run in any interleaving
ParallelEnter ==
    /\ pc = "main"
    /\ stdout' = stdout \o print_line(Joined("Generating data files in:",
                            data_dir_absolute(script.file, script.cwd)))
    /\ pc' = "parallel"
    /\ UNCHANGED <<script, gstep, dataDir, parentDir, files, bitgen, rng, years,
                   wells_count, df, error, events, start, prev, run>>

Scheduled(g) == pc = g \/ pc = "parallel"

\* where control goes when generator g returns
AfterReturn(g, steps) ==
    IF pc = "parallel"
    THEN IF \A h \in Generators : steps[h] = "returned" THEN "report"
         ELSE "parallel"
    ELSE LET i == CHOOSE k \in 1..Len(MainOrder) : MainOrder[k] = g
         IN  IF i = Len(MainOrder) THEN "report" ELSE MainOrder[i + 1]

\* the count drawn for a year: randint over the year's band
BandDraw(gen, r, b) == randint(gen, r, b[1], b[2])
WellsCount(gen, r, year) == BandDraw(gen, r, Band(year))

\* generate_wells_completion_data: seed, years and the empty list
WellsSeed ==
    /\ Scheduled("wells")
    /\ gstep["wells"] = "idle"
    /\ rng' = np_random_seed(rng, SEED)
    /\ years' = WellsYears
    /\ wells_count' = <<>>
    /\ gstep' = [gstep EXCEPT !["wells"] = "loop"]
    /\ UNCHANGED <<script, pc, dataDir, parentDir, files, bitgen, df, stdout, error,
                   events, start, prev, run>>

\* one iteration of the for loop: the band of the year, one randint, append
WellsDraw ==
    /\ Scheduled("wells")
    /\ gstep["wells"] = "loop"
    /\ Len(wells_count) < Len(years)
    /\ \E d \in {WellsCount(bitgen, rng, years[Len(wells_count) + 1])} :
           /\ d.ok
           /\ wells_count' = Append(wells_count, d.value)
           /\ rng' = d.rng
    /\ UNCHANGED <<script, pc, gstep, dataDir, parentDir, files, bitgen, years, df,
                   stdout, error, events, start, prev, run>>

\* after the loop: the DataFrame of years and counts
WellsBuild ==
    /\ Scheduled("wells")
    /\ gstep["wells"] = "loop"
    /\ Len(wells_count) = Len(years)
    /\ df' = [df EXCEPT !["wells"] = WellsFrame(years, wells_count)]
    /\ gstep' = [gstep EXCEPT !["wells"] = "built"]
    /\ UNCHANGED <<script, pc, dataDir, parentDir, files, bitgen, rng, years,
                   wells_count, stdout, error, events, start, prev, run>>

\* the three literal generators: lists and DataFrame
Build(g) ==
    /\ g # "wells"
    /\ Scheduled(g)
    /\ gstep[g] = "idle"
    /\ df' = [df EXCEPT ![g] = LiteralFrame(g)]
    /\ rng' = RngAfterBuild(g, bitgen, rng)
    /\ gstep' = [gstep EXCEPT ![g] = "built"]
    /\ UNCHANGED <<script, pc, dataDir, parentDir, files, bitgen, years, wells_count,
                   stdout, error, events, start, prev, run>>

\* df.to_csv(data_dir / name, index=False); print; return df
Save(g) ==
    /\ Scheduled(g)
    /\ gstep[g] = "built"
    /\ files' = WriteFile(files, FileOf(g), to_csv(df[g]))
    /\ stdout' = stdout \o print_line(Printed(g))
    /\ events' = Append(events, g)
    /\ gstep' = [gstep EXCEPT ![g] = "returned"]
    /\ pc' = AfterReturn(g, gstep')
    /\ UNCHANGED <<script, dataDir, parentDir, bitgen, rng, years, wells_count, df,
                   error, start, prev, run>>

\* the same call when the filesystem refuses the write: OSError, raised
\* through the generator and through main()
SaveFails(g) ==
    /\ Scheduled(g)
    /\ gstep[g] = "built"
    /\ files' \in FailedWrites(files, FileOf(g), to_csv(df[g]))
    /\ error' = "OSError"
    /\ pc' = OnWriteError(AfterReturn(g, [gstep EXCEPT ![g] = "returned"]))
    /\ gstep' = IF pc' = "aborted" THEN gstep
                ELSE [gstep EXCEPT ![g] = "returned"]
    /\ UNCHANGED <<script, dataDir, parentDir, bitgen, rng, years, wells_count, df,
                   stdout, events, start, prev, run>>

\* the end of main(): the closing line, the summaries' title, and a heading
\* and describe() for each table
Report ==
    /\ pc = "report"
    /\ stdout' = stdout \o ReportLines(df, script.file, script.cwd)
    /\ events' = Append(events, "report")
    /\ pc' = "done"
    /\ UNCHANGED <<script, gstep, dataDir, parentDir, files, bitgen, rng, years,
                   wells_count, df, error, start, prev, run>>

\* the script is run again: a new process, whose np.random starts from fresh
\* entropy (or, for a second call within one interpreter, from the state the
\* first left)
Rerun ==
    /\ pc \in {"done", "aborted"}
    /\ run < MaxRuns
    /\ run' = run + 1
    /\ prev' = [ran |-> TRUE,
                wells |-> IF gstep["wells"] \in {"built", "returned"}
                          THEN wells_count ELSE prev.wells,
                hasWells |-> prev.hasWells
                             \/ gstep["wells"] \in {"built", "returned"},
                done |-> pc = "done",
                files |-> files]
    /\ rng' \in EntropyStates \cup {rng}
    /\ start' = Snapshot(dataDir, parentDir, files, rng')
    /\ pc' = "import"
    /\ gstep' = [g \in Generators |-> "idle"]
    /\ years' = <<>>
    /\ wells_count' = <<>>
    /\ df' = [g \in Generators |-> NoFrame]
    /\ stdout' = <<>>
    /\ error' = "none"
    /\ events' = <<>>
    /\ UNCHANGED <<script, dataDir, parentDir, files, bitgen>>

Generate ==
    \/ WellsSeed
    \/ WellsDraw
    \/ WellsBuild
    \/ \E g \in Generators : Build(g)
    \/ \E g \in Generators : Save(g)
    \/ \E g \in Generators : SaveFails(g)

Next ==
    \/ ImportModule
    \/ MainEnter
    \/ Generate
    \/ Report
    \/ Rerun

Spec == Init /\ [][Next]_vars

\* the program over any source of raw words
SpecAnyDraw == InitAnyDraw /\ [][Next]_vars

\* the generators run in any interleaving of their steps, once the
\* directory step is done
NextParallel ==
    \/ ImportModule
    \/ ParallelEnter
    \/ Generate
    \/ Report

\* started on a disk with the data directory absent, empty or holding all
\* four files
InitParallel ==
    /\ script \in Invocations
    /\ dataDir \in {"absent", "dir"}
    /\ parentDir = TRUE
    /\ \E present \in {{}, FileNames} :
          /\ files = [n \in present |-> Stale]
          /\ present # {} => dataDir = "dir"
    /\ InitProcess
    /\ bitgen = MT19937
    /\ rng \in EntropyStates
    /\ start = Snapshot(dataDir, parentDir, files, rng)

SpecParallel == InitParallel /\ [][NextParallel]_vars

\* ------------------------------------------------------------------------
\* The wells table as one sequential call computes it from the seeded
\* generator: the counts and the generator state it ends in
\* ------------------------------------------------------------------------
\* st = [counts, rng]; the loop body for the year at index i
DrawStep(gen, st, d) == [counts |-> Append(st.counts, d.value), rng |-> d.rng]

RECURSIVE DrawLoop(_, _, _, _, _)
DrawRest(gen, first, ys, mid, hi) ==
    IF Len(first.counts) = mid - 1 THEN DrawLoop(gen, first, ys, mid, hi)
    ELSE first

DrawLoop(gen, st, ys, lo, hi) ==
    IF hi <= lo THEN st
    ELSE IF hi = lo + 1 THEN DrawStep(gen, st, WellsCount(gen, st.rng, ys[lo]))
    ELSE DrawRest(gen, DrawLoop(gen, st, ys, lo, (lo + hi) \div 2), ys,
                  (lo + hi) \div 2, hi)

SequentialWells ==
    DrawLoop(MT19937,
             [counts |-> <<>>,
              rng |-> np_random_seed(RngState(EntropySeed, 0), SEED)],
             WellsYears, 1, Len(WellsYears) + 1)

SequentialText(g) ==
    IF g = "wells" THEN to_csv(WellsFrame(WellsYears, SequentialWells.counts))
    ELSE to_csv(LiteralFrame(g))

RECURSIVE SumV(_)
SumV(col) == IF Len(col) = 0 THEN 0 ELSE col[1].v + SumV(Tail(col))

IsPrefix(a, b) == Len(a) <= Len(b) /\ a = SubSeq(b, 1, Len(a))

WellsDone == gstep["wells"] \in {"built", "returned"}

\* ------------------------------------------------------------------------
\* C1: every row of the wells table has Completed_Wells in the band of its
\* Year, whatever the draws return: Year < 1970 in [0, 50), 1970 <= Year <
\* 1990 in [50, 600), Year >= 1990 in [20, 200).
\* ------------------------------------------------------------------------
InClaimedBand(year, n) ==
    IF year < 1970 THEN 0 <= n /\ n < 50
    ELSE IF year < 1990 THEN 50 <= n /\ n < 600
    ELSE 20 <= n /\ n < 200

C1_CountsInBand ==
    /\ \A i \in 1..Len(wells_count) : InClaimedBand(years[i], wells_count[i])
    /\ \A r \in 1..NRows(df["wells"]) :
          InClaimedBand(ColumnOf(df["wells"], "Year")[r].v,
                        ColumnOf(df["wells"], "Completed_Wells")[r].v)

C1_Witness ==
    /\ bitgen # MT19937
    /\ NRows(df["wells"]) = 61
    /\ \A edge \in {0, 49, 50, 599, 20, 199} :
          \E i \in 1..Len(wells_count) :
              wells_count[i] = edge /\ InClaimedBand(years[i], edge)

\* ------------------------------------------------------------------------
\* C2: the wells table has 61 rows with Year 1960..2020 strictly increasing
\* without gap or duplicate, the production table 8 rows with Year
\* 2008..2015, the summary 9 rows, the geographic table 4 rows, and in each
\* table every column is as long as the key column.
\* ------------------------------------------------------------------------
C2_Rows(g) ==
    CASE g = "wells" -> 61 [] g = "production" -> 8
      [] g = "summary" -> 9 [] g = "geographic" -> 4

C2_Shape(g) ==
    /\ NRows(df[g]) = C2_Rows(g)
    /\ \A c \in 1..Len(df[g].columns) : Len(df[g].cols[c]) = NRows(df[g])
    /\ g = "wells" =>
          \A r \in 1..NRows(df[g]) : ColumnOf(df[g], "Year")[r].v = 1959 + r
    /\ g = "production" =>
          \A r \in 1..NRows(df[g]) : ColumnOf(df[g], "Year")[r].v = 2007 + r

C2_RowCounts ==
    /\ \A g \in Generators : df[g] # NoFrame => C2_Shape(g)
    /\ pc = "done" => \A g \in Generators : df[g] # NoFrame

C2_Witness ==
    /\ pc = "done"
    /\ \A g \in Generators : NRows(df[g]) = C2_Rows(g)

\* ------------------------------------------------------------------------
\* C3: two calls of the wells generator give identical Completed_Wells
\* sequences whatever np.random's state before each call: each call seeds
\* with 42 before its first draw and makes its 61 draws in year order.
\* ------------------------------------------------------------------------
C3_SameSequence ==
    /\ (gstep["wells"] = "loop" /\ wells_count = <<>>) => rng = RngState(42, 0)
    /\ \A i \in 1..(Len(years) - 1) : years[i] < years[i + 1]
    /\ WellsDone => Len(wells_count) = 61
    /\ prev.hasWells => IsPrefix(wells_count, prev.wells)
    /\ (prev.hasWells /\ WellsDone) => wells_count = prev.wells

C3_Witness ==
    /\ run = 2
    /\ prev.hasWells
    /\ WellsDone
    /\ wells_count = prev.wells
    /\ start.rng = RngState(EntropySeed, 3)

\* ------------------------------------------------------------------------
\* C4 as claimed: when the import step is over, a data directory that was
\* absent has been created together with its missing parent, one that was
\* present is still there, and no error was raised.
\* ------------------------------------------------------------------------
C4_CreatesWithParents ==
    (pc # "import" /\ start.dataDir \in {"absent", "dir"}) =>
        /\ dataDir = "dir"
        /\ parentDir
        /\ error \notin {"FileNotFoundError", "FileExistsError"}

\* C4 amended: an absent data directory whose parent exists is created; one
\* that is already a directory is left in place with its files and no error;
\* an absent one whose parent is missing is not created, nor is the parent:
\* the step raises FileNotFoundError and the process ends.
C4_CreatesOneLevel ==
    pc # "import" =>
        /\ (start.dataDir = "absent" /\ start.parentDir) =>
              /\ dataDir = "dir"
              /\ error \notin {"FileNotFoundError", "FileExistsError"}
        /\ start.dataDir = "dir" =>
              /\ dataDir = "dir"
              /\ error \notin {"FileNotFoundError", "FileExistsError"}
              /\ pc = "main" => files = start.files
        /\ (start.dataDir = "absent" /\ ~start.parentDir) =>
              /\ dataDir = "absent"
              /\ ~parentDir
              /\ error = "FileNotFoundError"
              /\ pc = "aborted"

C4_Witness ==
    /\ pc = "main"
    /\ start.dataDir = "absent"
    /\ dataDir = "dir"
    /\ error = "none"

\* ------------------------------------------------------------------------
\* C5: after a complete run the directory holds exactly the four files,
\* each with the full text of this run's table and nothing else, and after
\* a second complete run the directory equals what the first run left.
\* ------------------------------------------------------------------------
C5_Overwrite ==
    pc = "done" =>
        /\ DOMAIN files = {"wells_completion.csv", "production_data.csv",
                           "production_summary.csv", "geographic_data.csv"}
        /\ \A g \in Generators : files[FileOf(g)] = to_csv(df[g])
        /\ prev.done => files = prev.files

C5_Witness ==
    /\ pc = "done"
    /\ run = 2
    /\ prev.done
    /\ files = prev.files
    /\ start.files = prev.files

\* ------------------------------------------------------------------------
\* C6: the directory step comes before any write, the four generators write
\* in the order wells, production, summary, geographic, and the report
\* comes only after all four writes.
\* ------------------------------------------------------------------------
C6_Order ==
    <<"mkdir", "wells", "production", "summary", "geographic", "report">>

C6_EventsInOrder ==
    /\ IsPrefix(events, C6_Order)
    /\ pc = "done" => events = C6_Order
    /\ \A g \in Generators : gstep[g] # "idle" => dataDir = "dir"

C6_Witness ==
    /\ pc = "done"
    /\ events = C6_Order

\* ------------------------------------------------------------------------
\* C7: when the k-th write fails the run ends there with the error: no later
\* generator runs, no report, the files of generators 1..k-1 hold this run's
\* text, and the files of generators k+1..4 are as they were before the run.
\* ------------------------------------------------------------------------
C7_Calls == <<"wells", "production", "summary", "geographic">>

C7_AbortKeepsPartial ==
    error = "OSError" =>
        LET k == Len(events)
        IN  /\ pc = "aborted"
            /\ k \in 1..4
            /\ events = SubSeq(C6_Order, 1, k)
            /\ gstep[C7_Calls[k]] = "built"
            /\ \A j \in 1..(k - 1) :
                  /\ FileOf(C7_Calls[j]) \in DOMAIN files
                  /\ files[FileOf(C7_Calls[j])] = to_csv(df[C7_Calls[j]])
                  /\ df[C7_Calls[j]] # NoFrame
            /\ \A j \in (k + 1)..4 :
                  /\ gstep[C7_Calls[j]] = "idle"
                  /\ df[C7_Calls[j]] = NoFrame
                  /\ FileOf(C7_Calls[j]) \in DOMAIN files
                        <=> FileOf(C7_Calls[j]) \in DOMAIN start.files
                  /\ FileOf(C7_Calls[j]) \in DOMAIN files =>
                        files[FileOf(C7_Calls[j])]
                            = start.files[FileOf(C7_Calls[j])]

C7_Witness ==
    /\ error = "OSError"
    /\ pc = "aborted"
    /\ Len(events) = 3
    /\ DOMAIN files = {"wells_completion.csv", "production_data.csv",
                       "production_summary.csv"}
    /\ files["wells_completion.csv"] = to_csv(df["wells"])
    /\ files["production_data.csv"] = to_csv(df["production"])
    /\ files["production_summary.csv"] = <<>>
    /\ "geographic_data.csv" \notin DOMAIN files

\* ------------------------------------------------------------------------
\* C8: with the generators run in any order and any interleaving of their
\* steps, a complete run leaves the same four file texts as the sequential
\* order does.
\* ------------------------------------------------------------------------
C8_SameAsSequential ==
    pc = "done" =>
        /\ DOMAIN files = FileNames
        /\ \A g \in Generators : files[FileOf(g)] = SequentialText(g)

C8_Witness ==
    /\ pc = "done"
    /\ stdout[2] = "Generated geographic data"
    /\ stdout[5] = "Generated wells completion data"
    /\ \A g \in Generators : files[FileOf(g)] = SequentialText(g)

\* ------------------------------------------------------------------------
\* C9 as claimed: the wells generator leaves no change to the random
\* generator state visible outside itself.
\* ------------------------------------------------------------------------
C9_NoVisibleChange ==
    gstep["wells"] = "returned" => rng = start.rng

\* C9 amended: the generator state is np.random's process-wide one.  Until
\* the wells generator is called it is as the process found it; once the
\* wells generator has made its draws it is the state reached from seed 42
\* by those draws, whatever it was before, and it stays so through the
\* production, summary and geographic generators and the report, none of
\* which changes it.
C9_OnlyWellsChangesRng ==
    /\ gstep["wells"] = "idle" => rng = start.rng
    /\ WellsDone => rng = SequentialWells.rng

C9_Witness ==
    /\ pc = "done"
    /\ rng = SequentialWells.rng
    /\ rng # start.rng

\* ------------------------------------------------------------------------
\* C10: the nine Percentage values of the summary table sum to 100 (100000
\* thousandths).
\* ------------------------------------------------------------------------
C10_SumIs100 ==
    df["summary"] # NoFrame =>
        SumV(ColumnOf(df["summary"], "Percentage")) = 100000
====
